---- MODULE Spec2Model ----
(***************************************************************************)
(* KiddoTime: the task list / history reconciliation of App.tsx, the       *)
(* reordering and progress computation of Schedule.tsx, the form of        *)
(* TaskInput.tsx, the Scheduler Gateway of services/gemini.ts and the      *)
(* countdown of Timer.tsx, as one state machine.                           *)
(*                                                                         *)
(* Conventions.                                                            *)
(*  - One action is one event handler (or one resumption of an async       *)
(*    handler after its await, or one timer callback) together with the    *)
(*    React render and effects it triggers: the component state a handler  *)
(*    reads is the state of the last render, the save effect runs with     *)
(*    every change of `history`, component state is created on mount and   *)
(*    discarded on unmount.                                                *)
(*  - An async handler is split at its await: the part after the await     *)
(*    runs later, with the values its closure captured when the handler    *)
(*    was called (currentDate, tasks), against the then current state for  *)
(*    functional updates.                                                  *)
(*  - The repository holds two versions of the App component,              *)
(*    src/App.tsx and src/unnamed/part_000; `build` says which one runs.   *)
(*  - A Date is an instant, counted in units of 1/UnitsPerDay of a UTC     *)
(*    day; wall-clock readings (new Date(), Date.now()) are inputs, which  *)
(*    need not increase from one handler to the next (the clock of the     *)
(*    system can be set).                                                  *)
(*  - Array indexes are 1-based here (0-based in the source); the null     *)
(*    index of draggedItemIndex is NullIndex.                              *)
(*  - An optional numeric field that is absent holds Undefined.            *)
(*  - Durations are kept in seconds, so that minutes = seconds / 60 needs  *)
(*    no fractions: ratios are compared by cross-multiplication.           *)
(***************************************************************************)
EXTENDS Integers, Sequences, FiniteSets, TLC

\* ------------------------------------------------------------------ bounds

\* Instants are 0..MaxInstant, UnitsPerDay of them to a UTC day.
MaxInstant == 3
UnitsPerDay == 2
\* Longest task list an add may extend.
MaxTasks == 2
\* Readings of the millisecond clock (Date.now()) are 1..MaxClock.
MaxClock == 2
\* Most tick callbacks one mounted Timer receives.
MaxTicks == 2
\* Most async continuations (awaits, timeouts) pending at once.
MaxInFlight == 1

Instants == 0..MaxInstant
ClockReadings == 1..MaxClock

\* ------------------------------------------------------------- data model

\* types.ts: an optional field that is not set.
Undefined == -1

\* enum TaskStatus
TaskStatus == {"PENDING", "ACTIVE", "COMPLETED", "SKIPPED"}

\* enum AppState
AppState == {"ONBOARDING", "PLANNING", "DOING", "SUMMARY", "CALENDAR"}

\* The two versions of the App component in the repository.
Builds == {"App.tsx", "part_000"}

\* activeTask === null
NullTask == [id |-> "null"]

\* draggedItemIndex === null
NullIndex == 0

\* An array element that is `undefined` (a read past the end of an array).
UndefinedItem == [id |-> "undefined"]

\* Date.now().toString(), the id handleAddTask gives.
AddId(ms) == [pfx |-> "", ms |-> ms, idx |-> Undefined]

\* `task-${Date.now()}-${idx}`, the id handleCreateSchedule gives (idx 0-based).
ScheduleId(ms, idx) == [pfx |-> "task-", ms |-> ms, idx |-> idx]

\* DEFAULT_SUBJECTS: name -> emoji (glyphs spelled out).
DEFAULT_SUBJECTS ==
    [Math |-> "triangle-ruler", English |-> "open-book", Chinese |-> "books", Rest |-> "coffee"]

\* ------------------------------------------------------------ sequences

\* Number of positions of s holding x.
Count(s, x) == Cardinality({i \in 1..Len(s) : s[i] = x})

\* ---------------------------------------------------------------- strings

\* Strings the user types are sequences of characters.
RECURSIVE TrimLeft(_)
TrimLeft(s) == IF s # <<>> /\ Head(s) = " " THEN TrimLeft(Tail(s)) ELSE s

RECURSIVE TrimRight(_)
TrimRight(s) ==
    IF s # <<>> /\ s[Len(s)] = " " THEN TrimRight(SubSeq(s, 1, Len(s) - 1)) ELSE s

\* String.prototype.trim
Trim(s) == TrimRight(TrimLeft(s))

\* ------------------------------------------------------------ the history

\* A history is a JS object: a function from the day keys it has to task lists.
EmptyHistory == [k \in {} |-> <<>>]

\* history[dateKey] || []
Lookup(h, k) == IF k \in DOMAIN h THEN h[k] ELSE <<>>

\* { [dateKey]: updatedTasks }: the spread of prevHistory forgotten (C2 tells this
\* variant from SpreadWith).
SpreadWithoutPrev(h, k, v) == [x \in {k} |-> v]

\* { ...prevHistory, [dateKey]: updatedTasks }
SpreadWith(h, k, v) == [x \in (DOMAIN h) \cup {k} |-> IF x = k THEN v ELSE h[x]]

\* date.toISOString().split('T')[0]: the UTC day of an instant.
getDateKey(date) == date \div UnitsPerDay

\* localStorage: no item, or a string that JSON.parse rejects, or the JSON of a value.
NoItem == [kind |-> "none", value |-> EmptyHistory]

CorruptItem == [kind |-> "corrupt", value |-> EmptyHistory]

\* JSON.stringify(history), as the value JSON.parse makes of the string: every
\* key with its array, an array element that is undefined written as null (the
\* properties of a task are strings, numbers and booleans, and an absent one is
\* left out).
Stringify(h) ==
    [kind |-> "json",
     value |-> [k \in DOMAIN h |->
                   [i \in 1..Len(h[k]) |->
                       IF h[k][i] = UndefinedItem THEN NullTask ELSE h[k][i]]]]

\* ------------------------------------------------------------------ state

VARIABLES
    build,            \* which App component runs
    mounted,          \* FALSE until the mount effects have run
    appState,         \* App: appState
    currentDate,      \* App: currentDate (an instant)
    tasks,            \* App: tasks
    history,          \* App: history
    activeTask,       \* App: activeTask
    isGenerating,     \* App: isGenerating
    modalMessage,     \* App: modalMessage is not null
    storage,          \* localStorage item STORAGE_KEY
    pending,          \* continuations of async handlers and timeouts not yet run
    timeLeft,         \* Timer: timeLeft
    isActive,         \* Timer: isActive
    totalTimeSpent,   \* Timer: totalTimeSpent
    interval,         \* Timer: the interval of the tick effect that ran last
    liveIntervals,    \* the intervals set and not cleared
    draggedItemIndex, \* Schedule: draggedItemIndex
    showAddModal,     \* Schedule: showAddModal
    newTaskMinutes,   \* TaskInput: newTaskMinutes
    ticksReceived,    \* observer: tick callbacks the mounted Timer has run
    resetUsed,        \* observer: the mounted Timer was reset
    lastOp            \* observer: the handler that ran last, and what it was given

appVars == <<appState, currentDate, tasks, history, activeTask, isGenerating, modalMessage>>

timerVars ==
    <<timeLeft, isActive, totalTimeSpent, interval, liveIntervals, ticksReceived, resetUsed>>

scheduleVars == <<draggedItemIndex, showAddModal>>

formVars == <<newTaskMinutes>>

vars ==
    <<build, mounted, appVars, storage, pending, timerVars, scheduleVars, formVars, lastOp>>

\* ------------------------------------------------------------- task records

\* interface Task; actualMinutes is the extra property App.tsx writes on completion.
Task(id, title, subject, estimatedMinutes, status, isBreak, emoji) ==
    [id |-> id, title |-> title, subject |-> subject,
     estimatedMinutes |-> estimatedMinutes, status |-> status, isBreak |-> isBreak,
     emoji |-> emoji, actualDurationSeconds |-> Undefined, actualMinutes |-> Undefined]

\* A continuation that has not run yet: what kind, and what its closure holds.
Continuation(kind, date, list, task, duration) ==
    [kind |-> kind, date |-> date, list |-> list, task |-> task, duration |-> duration]

HasUndefined(ts) == \E i \in 1..Len(ts) : ts[i] = UndefinedItem

\* A render that reads a field of an `undefined` array element throws, and React
\* unmounts the application: no handler runs any more.
Crashed == HasUndefined(tasks)

\* ------------------------------------------------------- mount and unmount

\* App.tsx:246 / part_000:207: <Timer> is rendered.
TimerMounted(as, at) == as = "DOING" /\ at # NullTask

\* let interval: any = null (Timer.tsx:30)
NullInterval == 0

\* clearInterval(h): the interval h, if there is one, fires no more.
clearInterval(live, h) == live \ {h}

\* The handle setInterval returns: one that no live interval has.
setInterval(live) == CHOOSE h \in 1..(Cardinality(live) + 1) : h \notin live

\* Timer.tsx:29-38: the tick effect at a commit where isActive became active (or
\* the Timer mounted): the cleanup of the effect that ran before clears its
\* interval, then the effect sets one if active.
tickEffect(active) ==
    LET cleared == clearInterval(liveIntervals, interval)
    IN  /\ interval' = IF active THEN setInterval(cleared) ELSE NullInterval
        /\ liveIntervals' = IF active THEN cleared \cup {interval'} ELSE cleared

\* Timer.tsx:12-14, 29-38: the state of a Timer that mounts for task at, and its
\* tick effect.
TimerInitial(at) ==
    /\ timeLeft' = at.estimatedMinutes * 60
    /\ isActive' = FALSE
    /\ totalTimeSpent' = 0
    /\ tickEffect(FALSE)
    /\ ticksReceived' = 0
    /\ resetUsed' = FALSE

\* No Timer is mounted: its state does not exist, and the cleanup of its tick
\* effect has run (Timer.tsx:37).
TimerGone ==
    /\ timeLeft' = 0
    /\ isActive' = FALSE
    /\ totalTimeSpent' = 0
    /\ tickEffect(FALSE)
    /\ ticksReceived' = 0
    /\ resetUsed' = FALSE

\* Schedule.tsx:14-15: the state of a Schedule that mounts, also kept while none is.
ScheduleInitial ==
    /\ draggedItemIndex' = NullIndex
    /\ showAddModal' = FALSE

\* App.tsx:229-235: the onboarding form; Schedule.tsx:87-101: the inline form.
TaskInputShown(as, modal) == as = "ONBOARDING" \/ (as = "PLANNING" /\ modal)

\* TaskInput.tsx:22: the state of a TaskInput that mounts, also kept while none is.
TaskInputInitial == newTaskMinutes' = 30

\* The render after appState and activeTask become as and at: a component that
\* stays rendered keeps its state (whatever its props become), one that appears
\* starts afresh, one that disappears loses its state.
Render(as, at) ==
    /\ appState' = as
    /\ activeTask' = at
    /\ IF TimerMounted(as, at)
         THEN IF TimerMounted(appState, activeTask) THEN UNCHANGED timerVars
              ELSE TimerInitial(at)
         ELSE TimerGone
    /\ IF as = "PLANNING" /\ appState = "PLANNING" THEN UNCHANGED scheduleVars
         ELSE ScheduleInitial
    /\ IF /\ TaskInputShown(appState, showAddModal)
          /\ TaskInputShown(as, appState = "PLANNING" /\ showAddModal)
         THEN UNCHANGED formVars
         ELSE TaskInputInitial

\* --------------------------------------------------------------- the store

\* updateTasks without its setHistory (C3 tells this variant from updateTasks).
updateTasksNotStored(updatedTasks, date) ==
    /\ tasks' = updatedTasks
    /\ UNCHANGED <<history, storage>>

\* updateTasks with a save effect that writes the entry of the day alone (C16
\* tells this variant from updateTasks).
updateTasksSavingEntry(updatedTasks, date) ==
    /\ tasks' = updatedTasks
    /\ history' = SpreadWith(history, getDateKey(date), updatedTasks)
    /\ storage' = Stringify(SpreadWith(EmptyHistory, getDateKey(date), updatedTasks))

\* App.tsx:57-70 updateTasks, with the save effect (App.tsx:52-54) of the render
\* that follows. updatedTasks is what the updater yields, date the currentDate of
\* the closure the caller holds. A render that throws commits nothing, so its
\* save effect does not run.
updateTasks(updatedTasks, date) ==
    /\ tasks' = updatedTasks
    /\ history' = SpreadWith(history, getDateKey(date), updatedTasks)
    /\ storage' = IF HasUndefined(updatedTasks) THEN storage ELSE Stringify(history')

\* handleDateChange giving the day it shows an entry of its own (C4 tells this
\* variant from handleDateChange).
handleDateChangeCreatingEntry(newDate) ==
    /\ currentDate' = newDate
    /\ tasks' = Lookup(history, getDateKey(newDate))
    /\ history' = SpreadWith(history, getDateKey(newDate), tasks')
    /\ storage' = Stringify(history')
    /\ Render("PLANNING", activeTask)
    /\ UNCHANGED <<isGenerating, modalMessage, pending>>

\* App.tsx:72-85 handleDateChange
handleDateChange(newDate) ==
    /\ currentDate' = newDate
    /\ tasks' = Lookup(history, getDateKey(newDate))
    /\ Render("PLANNING", activeTask)
    /\ UNCHANGED <<history, storage, isGenerating, modalMessage, pending>>

\* ------------------------------------------------------------------ inputs

\* The UTC days of the instants.
DayKeys == {getDateKey(i) : i \in Instants}

\* Offsets of local time from UTC, in instants.
TzOffsets == {0 - 1, 0, 1}

\* CalendarView handleDayClick: new Date(year, month, day) is local midnight.
LocalMidnight(day, tz) == day * UnitsPerDay - tz

\* The calendar day of an instant in the time zone tz, which is the cell of the
\* calendar for that day (getFullYear, getMonth and the day of the month are
\* local).
LocalDay(date, tz) == (date + tz) \div UnitsPerDay

\* What the user may have typed as a title or a custom subject.
TitleInputs == {<<>>, <<"hw">>}

\* The preset the user picks.
PresetInputs == {"Rest"}

\* A task a previous session stored, at a clock reading before those of this one.
StoredTask == Task(AddId(0), <<"hw">>, <<"Math">>, 30, "PENDING", FALSE, "triangle-ruler")

\* Records a previous session may have left in localStorage.
StoredHistories == {EmptyHistory} \cup {[k \in {d} |-> <<StoredTask>>] : d \in DayKeys}

StoredItems == {NoItem, CorruptItem} \cup {Stringify(h) : h \in StoredHistories}

\* A task a previous session got from the gateway, with an estimate of 0 minutes.
ZeroMinuteTask == Task(ScheduleId(0, 0), <<"Break">>, <<"Rest">>, 0, "PENDING", TRUE, "calendar")

\* Records with two tasks for a day, one of them without time left to count down.
TimerStoredItems ==
    {Stringify([k \in {d} |-> <<StoredTask, ZeroMinuteTask>>]) : d \in DayKeys}

\* Another task a previous session stored.
OtherStoredTask ==
    Task(AddId(0 - 1), <<"read">>, <<"English">>, 20, "PENDING", FALSE, "open-book")

\* Records with tasks for every day, two of them for one of the days.
DaysStoredItems ==
    {Stringify([k \in DayKeys |-> IF k = d THEN <<StoredTask, ZeroMinuteTask>>
                                  ELSE <<OtherStoredTask>>]) : d \in DayKeys}

\* ------------------------------------------------------------------- start

\* App.tsx:13-24 / part_000:14-24: the state of the first render, with one of
\* items in localStorage.
InitWith(items) ==
    /\ build \in Builds
    /\ mounted = FALSE
    /\ appState = IF build = "App.tsx" THEN "ONBOARDING" ELSE "PLANNING"
    /\ currentDate \in Instants
    /\ tasks = <<>>
    /\ history = EmptyHistory
    /\ activeTask = NullTask
    /\ isGenerating = FALSE
    /\ modalMessage = FALSE
    /\ storage \in items
    /\ pending = {}
    /\ timeLeft = 0
    /\ isActive = FALSE
    /\ totalTimeSpent = 0
    /\ interval = NullInterval
    /\ liveIntervals = {}
    /\ ticksReceived = 0
    /\ resetUsed = FALSE
    /\ draggedItemIndex = NullIndex
    /\ showAddModal = FALSE
    /\ newTaskMinutes = 30
    /\ lastOp = <<"init", "">>

Init == InitWith(StoredItems)

\* The mount effects without the load effect (C15 tells this variant from
\* MountEffects).
MountEffectsWithoutLoad ==
    /\ ~mounted
    /\ mounted' = TRUE
    /\ \E today \in Instants :
        /\ today >= currentDate
        /\ lastOp' = <<"mount", today>>
    /\ Render(appState, activeTask)
    /\ storage' = Stringify(history)
    /\ UNCHANGED <<build, currentDate, tasks, history, isGenerating, modalMessage, pending>>

\* App.tsx:30-54: the load effect, then the save effect, of the first render, and
\* the save effect of the render that setHistory causes. today is new Date() as the
\* load effect reads it, which lastOp keeps.
MountEffects ==
    /\ ~mounted
    /\ mounted' = TRUE
    /\ \E today \in Instants :
        /\ today >= currentDate
        /\ IF storage.kind = "json"
             THEN /\ history' = storage.value
                  /\ IF getDateKey(today) \in DOMAIN storage.value
                       THEN /\ tasks' = storage.value[getDateKey(today)]
                            /\ Render("PLANNING", activeTask)
                       ELSE /\ tasks' = tasks
                            /\ Render(appState, activeTask)
             ELSE /\ history' = history
                  /\ tasks' = tasks
                  /\ Render(appState, activeTask)
        /\ lastOp' = <<"mount", today>>
    /\ storage' = Stringify(history')
    /\ UNCHANGED <<build, currentDate, isGenerating, modalMessage, pending>>

\* App.tsx:30-54, the first half of MountEffects: the effects of the first
\* render. The load effect reads the item and calls setHistory, setTasks and
\* setAppState, which take effect with the next render; the save effect writes
\* the history of the first render.
FirstRenderEffects ==
    /\ ~mounted
    /\ pending = {}
    /\ \E today \in Instants :
        /\ today >= currentDate
        /\ IF storage.kind = "json"
             THEN /\ pending' = {Continuation("loaded", today, storage.value, NullTask, 0)}
                  /\ mounted' = FALSE
             ELSE /\ pending' = pending
                  /\ mounted' = TRUE
        /\ lastOp' = <<"firstRender", today>>
    /\ storage' = Stringify(history)
    /\ UNCHANGED <<build, appVars, timerVars, scheduleVars, formVars>>

\* App.tsx:35-41, 52-54, the second half of MountEffects: the render with the
\* state the load effect set, and its save effect.
LoadedRender ==
    /\ ~mounted
    /\ mounted' = TRUE
    /\ \E c \in pending :
        /\ c.kind = "loaded"
        /\ pending' = pending \ {c}
        /\ history' = c.list
        /\ IF getDateKey(c.date) \in DOMAIN c.list
             THEN /\ tasks' = c.list[getDateKey(c.date)]
                  /\ Render("PLANNING", activeTask)
             ELSE /\ tasks' = tasks
                  /\ Render(appState, activeTask)
        /\ lastOp' = <<"loadedRender", c.date>>
    /\ storage' = Stringify(history')
    /\ UNCHANGED <<build, currentDate, isGenerating, modalMessage>>

\* The application runs: callbacks and continuations have a component to act on.
Interactive == mounted /\ ~Crashed

\* The user can click or type: no drag gesture is under way.
Clickable == Interactive /\ draggedItemIndex = NullIndex

\* App.tsx:164 / part_000:143: the header shows the calendar and schedule buttons.
HeaderButtons == build = "part_000" \/ appState # "ONBOARDING"

\* CalendarView handleDayClick -> onSelectDate, in the time zone tz.
CalendarSelectDate ==
    /\ Clickable
    /\ appState = "CALENDAR"
    /\ \E day \in DayKeys, tz \in TzOffsets :
        /\ LocalMidnight(day, tz) \in Instants
        /\ handleDateChange(LocalMidnight(day, tz))
        /\ lastOp' = <<"handleDateChange", "", [day |-> day, tz |-> tz]>>
    /\ UNCHANGED <<build, mounted>>

\* App.tsx:155-162 and 196: the Back to Today buttons, shown when the last render
\* found the day of currentDate different from the day of its reading of the
\* clock; the click reads the clock again.
BackToToday ==
    /\ Clickable
    /\ appState # "CALENDAR"
    /\ \E shown \in Instants, now \in Instants :
        /\ getDateKey(shown) # getDateKey(currentDate)
        /\ now >= shown
        /\ handleDateChange(now)
    /\ lastOp' = <<"handleDateChange", "">>
    /\ UNCHANGED <<build, mounted>>

\* App.tsx:167: the calendar button of the header.
OpenCalendar ==
    /\ Clickable
    /\ HeaderButtons
    /\ appState # "CALENDAR"
    /\ Render("CALENDAR", activeTask)
    /\ lastOp' = <<"setAppState", "">>
    /\ UNCHANGED <<build, mounted, currentDate, tasks, history, isGenerating,
                   modalMessage, storage, pending>>

\* App.tsx:175, 225, 250: the schedule button of the header, the calendar's onClose
\* and the timer's onBack.
ShowPlanning ==
    /\ Clickable
    /\ HeaderButtons
    /\ appState # "PLANNING"
    /\ Render("PLANNING", activeTask)
    /\ lastOp' = <<"setAppState", "">>
    /\ UNCHANGED <<build, mounted, currentDate, tasks, history, isGenerating,
                   modalMessage, storage, pending>>

\* -------------------------------------------------------------- TaskInput

\* TaskInput.tsx:40-48: the task handleAddTask builds (title and subject trimmed).
NewTask(title, subjectName, estimatedMinutes, isCustomSubject, selectedPreset, ms) ==
    Task(AddId(ms), title,
         IF subjectName # <<>> THEN subjectName ELSE <<"General">>,
         estimatedMinutes, "PENDING",
         ~isCustomSubject /\ selectedPreset = "Rest",
         IF isCustomSubject THEN "zap" ELSE DEFAULT_SUBJECTS[selectedPreset])

\* TaskInput.tsx:29-56 handleAddTask, for the form state given and the clock
\* reading ms; the form is the inline one exactly when appState is PLANNING, and
\* is gone with the onClose of a successful add.
handleAddTask(newTaskTitle, isCustomSubject, customSubjectName, selectedPreset, ms) ==
    LET title == Trim(newTaskTitle)
        subjectName == IF isCustomSubject THEN Trim(customSubjectName)
                       ELSE <<selectedPreset>>
    IN  IF title = <<>> \/ (isCustomSubject /\ subjectName = <<>>)
        THEN UNCHANGED <<tasks, history, storage, scheduleVars, formVars>>
        ELSE /\ updateTasks(Append(tasks, NewTask(title, subjectName, newTaskMinutes,
                                                  isCustomSubject, selectedPreset, ms)),
                            currentDate)
             /\ showAddModal' = FALSE
             /\ IF appState = "PLANNING" THEN TaskInputInitial ELSE UNCHANGED formVars
             /\ UNCHANGED draggedItemIndex

\* TaskInput.tsx:185: Enter in the title field calls handleAddTask, whatever the
\* state of the add button.
AddTaskByEnter ==
    /\ Clickable
    /\ TaskInputShown(appState, showAddModal)
    /\ Len(tasks) < MaxTasks
    /\ \E t \in TitleInputs, p \in PresetInputs, ms \in ClockReadings :
        handleAddTask(t, FALSE, <<>>, p, ms)
    /\ lastOp' = <<"handleAddTask", "">>
    /\ UNCHANGED <<build, mounted, appState, currentDate, activeTask, isGenerating,
                   modalMessage, pending, timerVars>>

\* TaskInput.tsx:188-194: the add button, disabled for an empty title, an empty
\* custom subject or zero minutes.
AddTaskByClick ==
    /\ Clickable
    /\ TaskInputShown(appState, showAddModal)
    /\ Len(tasks) < MaxTasks
    /\ newTaskMinutes # 0
    /\ \E t \in TitleInputs, p \in PresetInputs, ms \in ClockReadings :
        /\ Trim(t) # <<>>
        /\ handleAddTask(t, FALSE, <<>>, p, ms)
    /\ lastOp' = <<"handleAddTask", "">>
    /\ UNCHANGED <<build, mounted, appState, currentDate, activeTask, isGenerating,
                   modalMessage, pending, timerVars>>

\* The value of a decimal digit.
DigitValue ==
    [c \in {"0", "1", "2", "3", "4", "5", "6", "7", "8", "9"} |->
        CASE c = "0" -> 0 [] c = "1" -> 1 [] c = "2" -> 2 [] c = "3" -> 3 [] c = "4" -> 4
          [] c = "5" -> 5 [] c = "6" -> 6 [] c = "7" -> 7 [] c = "8" -> 8 [] c = "9" -> 9]

\* The longest prefix of s made of digits.
RECURSIVE DigitPrefix(_)
DigitPrefix(s) ==
    IF s # <<>> /\ Head(s) \in DOMAIN DigitValue
    THEN <<Head(s)>> \o DigitPrefix(Tail(s))
    ELSE <<>>

\* The number a sequence of digits writes, after the digits that wrote acc.
RECURSIVE DigitsValue(_, _)
DigitsValue(s, acc) ==
    IF s = <<>> THEN acc ELSE DigitsValue(Tail(s), acc * 10 + DigitValue[Head(s)])

\* A JS number that may be NaN.
NaN == [nan |-> TRUE, value |-> 0]

Number(n) == [nan |-> FALSE, value |-> n]

isNaN(num) == num.nan

\* parseInt(val, 10): leading blanks go, a sign may come, the digits that follow
\* are read up to the first other character; NaN when there is no digit.
parseInt(val) ==
    LET s == TrimLeft(val)
        negative == s # <<>> /\ Head(s) = "-"
        unsigned == IF s # <<>> /\ Head(s) \in {"-", "+"} THEN Tail(s) ELSE s
        digits == DigitPrefix(unsigned)
    IN  IF digits = <<>> THEN NaN
        ELSE Number(IF negative THEN 0 - DigitsValue(digits, 0)
                    ELSE DigitsValue(digits, 0))

Min(a, b) == IF a < b THEN a ELSE b

Max(a, b) == IF a > b THEN a ELSE b

\* TaskInput.tsx:73-81 handleMinutesChange
handleMinutesChange(val) ==
    LET num == parseInt(val)
    IN  newTaskMinutes' = IF isNaN(num) THEN 0 ELSE Min(Max(num.value, 0), 480)

\* What the user may leave in the number field of the form.
MinutesFieldInputs ==
    {<<>>, <<"0">>, <<"4", "5">>, <<"-", "5">>, <<"6", "0", "0">>, <<"7", "e">>}

\* TaskInput.tsx:164-172: the number field of the form changes.
MinutesChange ==
    /\ Clickable
    /\ TaskInputShown(appState, showAddModal)
    /\ \E val \in MinutesFieldInputs : handleMinutesChange(val)
    /\ lastOp' = <<"handleMinutesChange", "">>
    /\ UNCHANGED <<build, mounted, appVars, storage, pending, timerVars, scheduleVars>>

\* TaskInput.tsx:58-60 removeTask, from the list of the onboarding form.
removeTask(id) ==
    LET Keep(t) == t.id # id
    IN  updateTasks(SelectSeq(tasks, Keep), currentDate)

RemoveTask ==
    /\ Clickable
    /\ appState = "ONBOARDING"
    /\ \E i \in 1..Len(tasks) : removeTask(tasks[i].id)
    /\ lastOp' = <<"removeTask", "">>
    /\ UNCHANGED <<build, mounted, appState, currentDate, activeTask, isGenerating,
                   modalMessage, pending, timerVars, scheduleVars, formVars>>

\* Schedule.tsx:129 and 95-99: the add button opens the inline form, its close
\* button and backdrop close it.
ToggleAddModal ==
    /\ Clickable
    /\ appState = "PLANNING"
    /\ showAddModal' = ~showAddModal
    /\ TaskInputInitial
    /\ lastOp' = <<"setShowAddModal", "">>
    /\ UNCHANGED <<build, mounted, appVars, storage, pending, timerVars, draggedItemIndex>>

\* ------------------------------------------------------ Scheduler Gateway

\* App.tsx:91: what handleCreateSchedule sends for a task.
SimpleTask(t) ==
    [title |-> t.title, subject |-> t.subject,
     estimatedMinutes |-> t.estimatedMinutes, emoji |-> t.emoji]

\* An item of the gateway's answer (gemini.ts:37-45).
Item(title, subject, estimatedMinutes, isBreak, emoji) ==
    [title |-> title, subject |-> subject, estimatedMinutes |-> estimatedMinutes,
     isBreak |-> isBreak, emoji |-> emoji]

\* gemini.ts:57: tasks.map(t => ({...t, isBreak: false, emoji: <memo>}))
Fallback(simpleTasks) ==
    LET F(t) == Item(t.title, t.subject, t.estimatedMinutes, FALSE, "memo")
    IN  [i \in 1..Len(simpleTasks) |-> F(simpleTasks[i])]

Reverse(s) == [i \in 1..Len(s) |-> s[Len(s) + 1 - i]]

\* What ai.models.generateContent may do: throw, or answer with a text that is
\* empty, or is not JSON, or is the JSON of a value that is no array, or is the
\* JSON of a list of items.
GatewayOutcomes(simpleTasks) ==
    LET AsItem(t) == Item(t.title, t.subject, t.estimatedMinutes, FALSE, "sparkles")
        none == [kind |-> "throws", items |-> <<>>]
    IN  {none, [none EXCEPT !.kind = "empty"], [none EXCEPT !.kind = "malformed"],
         [none EXCEPT !.kind = "object"],
         [kind |-> "array",
          items |-> Reverse([i \in 1..Len(simpleTasks) |-> AsItem(simpleTasks[i])])],
         [kind |-> "array", items |-> <<Item(<<"Break">>, <<"Rest">>, 5, TRUE, "")>>]}

\* gemini.ts:10-59 generateOptimizedSchedule: what the promise resolves to, an
\* array or not.
generateOptimizedSchedule(simpleTasks, outcome) ==
    CASE outcome.kind \in {"throws", "malformed"} ->
             [isArray |-> TRUE, items |-> Fallback(simpleTasks)]
      [] outcome.kind = "empty" -> [isArray |-> TRUE, items |-> <<>>]
      [] outcome.kind = "array" -> [isArray |-> TRUE, items |-> outcome.items]
      [] OTHER -> [isArray |-> FALSE, items |-> <<>>]

\* App.tsx:95-103: the tasks made of the items, at the clock reading ms.
ScheduledTasks(items, ms) ==
    [i \in 1..Len(items) |->
        Task(ScheduleId(ms, i - 1), items[i].title, items[i].subject,
             items[i].estimatedMinutes, "PENDING", items[i].isBreak,
             IF items[i].emoji # "" THEN items[i].emoji ELSE "calendar")]

\* App.tsx:87-93 handleCreateSchedule up to its await (TaskInput.tsx:198 shows the
\* button of the onboarding form when there is a task).
CreateSchedule ==
    /\ Clickable
    /\ appState = "ONBOARDING"
    /\ Len(tasks) > 0
    /\ Cardinality(pending) < MaxInFlight
    /\ isGenerating' = TRUE
    /\ LET simpleTasks == [i \in 1..Len(tasks) |-> SimpleTask(tasks[i])]
       IN  pending' = pending \cup
               {Continuation("schedule", currentDate, simpleTasks, NullTask, 0)}
    /\ lastOp' = <<"handleCreateSchedule", "">>
    /\ UNCHANGED <<build, mounted, appState, currentDate, tasks, history, activeTask,
                   modalMessage, storage, timerVars, scheduleVars, formVars>>

\* App.tsx:93-107 handleCreateSchedule from its await on, for continuation c, the
\* gateway doing outcome and the clock reading ms. optimized.map throws when the
\* gateway's answer is no array, and the handler ends there.
handleCreateScheduleResume(c, outcome, ms) ==
    LET optimized == generateOptimizedSchedule(c.list, outcome)
    IN  /\ pending' = pending \ {c}
        /\ IF optimized.isArray
             THEN /\ updateTasks(ScheduledTasks(optimized.items, ms), c.date)
                  /\ isGenerating' = FALSE
                  /\ Render("PLANNING", activeTask)
             ELSE UNCHANGED <<tasks, history, storage, isGenerating, appState,
                              activeTask, timerVars, scheduleVars, formVars>>
        /\ lastOp' = <<"handleCreateSchedule", outcome.kind>>

ScheduleResolves ==
    /\ Interactive
    /\ \E c \in pending :
        /\ c.kind = "schedule"
        /\ \E outcome \in GatewayOutcomes(c.list), ms \in ClockReadings :
            handleCreateScheduleResume(c, outcome, ms)
    /\ UNCHANGED <<build, mounted, currentDate, modalMessage>>

\* ------------------------------------------------- start, complete, delete

\* Schedule.tsx:17-18
IsPending(t) == t.status = "PENDING" \/ t.status = "ACTIVE"

IsCompleted(t) == t.status = "COMPLETED"

pendingTasks(ts) == SelectSeq(ts, IsPending)

completedTasks(ts) == SelectSeq(ts, IsCompleted)

\* a || b for a number a that may be absent: b when a is undefined or 0.
JsOr(a, b) == IF a = Undefined \/ a = 0 THEN b ELSE a

RECURSIVE SumSeq(_)
SumSeq(s) == IF s = <<>> THEN 0 ELSE Head(s) + SumSeq(Tail(s))

\* Schedule.tsx:34-39 calculateTaskMinutes, times 60 (in seconds).
calculateTaskMinutes(t) ==
    IF t.status = "COMPLETED"
    THEN JsOr(t.actualDurationSeconds, t.estimatedMinutes * 60)
    ELSE t.estimatedMinutes * 60

\* Schedule.tsx:80, times 60.
totalMinutes(ts) == SumSeq([i \in 1..Len(ts) |-> calculateTaskMinutes(ts[i])])

\* Schedule.tsx:81, times 60.
completedMinutes(ts) ==
    LET F(t) == JsOr(t.actualDurationSeconds, t.estimatedMinutes * 60)
        done == completedTasks(ts)
    IN  SumSeq([i \in 1..Len(done) |-> F(done[i])])

\* Schedule.tsx:82 progressPercent, as the fraction num / den it is.
progressPercent(ts) ==
    IF Len(ts) > 0 THEN [num |-> completedMinutes(ts) * 100, den |-> totalMinutes(ts)]
    ELSE [num |-> 0, den |-> 1]

\* App.tsx:136-138 handleDeleteTask
handleDeleteTask(taskId) ==
    LET Keep(t) == t.id # taskId
    IN  updateTasks(SelectSeq(tasks, Keep), currentDate)

\* Schedule.tsx:195-204: the remove button of a pending item.
DeleteTask ==
    /\ Clickable
    /\ appState = "PLANNING"
    /\ \E i \in 1..Len(pendingTasks(tasks)) : handleDeleteTask(pendingTasks(tasks)[i].id)
    /\ lastOp' = <<"handleDeleteTask", "">>
    /\ UNCHANGED <<build, mounted, appState, currentDate, activeTask, isGenerating,
                   modalMessage, pending, timerVars, scheduleVars, formVars>>

\* App.tsx:110-111 handleStartTask up to its await; part_000:102-105 handleStartTask.
\* The code puts no limit on the calls that await; limit caps them.
handleStartTaskUpTo(limit, task) ==
    IF build = "App.tsx"
    THEN /\ Cardinality(pending) < limit
         /\ pending' = pending \cup {Continuation("startMessage", currentDate, <<>>, task, 0)}
         /\ UNCHANGED <<appState, activeTask, timerVars, scheduleVars, formVars>>
    ELSE /\ Render("DOING", task)
         /\ UNCHANGED pending

handleStartTask(task) == handleStartTaskUpTo(MaxInFlight, task)

\* Schedule.tsx:206-213 with App.tsx:110-111: the play button of a pending item
\* pressed while an earlier press, of this item or another, still awaits its
\* message or its timeout; the Schedule stays on the page until a timeout fires.
StartAgain ==
    /\ Clickable
    /\ appState = "PLANNING"
    /\ \E c \in pending : c.kind \in {"startMessage", "startTimeout"}
    /\ \E i \in 1..Len(pendingTasks(tasks)) :
        handleStartTaskUpTo(MaxInFlight + 1, pendingTasks(tasks)[i])
    /\ lastOp' = <<"handleStartTask", "">>
    /\ UNCHANGED <<build, mounted, currentDate, tasks, history, isGenerating,
                   modalMessage, storage>>

\* Schedule.tsx:206-213: the play button of a pending item.
StartTask ==
    /\ Clickable
    /\ appState = "PLANNING"
    /\ \E i \in 1..Len(pendingTasks(tasks)) : handleStartTask(pendingTasks(tasks)[i])
    /\ lastOp' = <<"handleStartTask", "">>
    /\ UNCHANGED <<build, mounted, currentDate, tasks, history, isGenerating,
                   modalMessage, storage>>

\* App.tsx:111-113: getMotivationalMessage has resolved (it never rejects,
\* gemini.ts:73-81); the message shows and the timeout of 2500 ms starts.
StartMessageResolves ==
    /\ Interactive
    /\ \E c \in pending :
        /\ c.kind = "startMessage"
        /\ pending' = (pending \ {c}) \cup {[c EXCEPT !.kind = "startTimeout"]}
    /\ modalMessage' = TRUE
    /\ lastOp' = <<"handleStartTask", "message">>
    /\ UNCHANGED <<build, mounted, appState, currentDate, tasks, history, activeTask,
                   isGenerating, storage, timerVars, scheduleVars, formVars>>

\* App.tsx:113-117: the timeout of handleStartTask fires.
StartTimeoutFires ==
    /\ Interactive
    /\ \E c \in pending :
        /\ c.kind = "startTimeout"
        /\ pending' = pending \ {c}
        /\ Render("DOING", c.task)
    /\ modalMessage' = FALSE
    /\ lastOp' = <<"handleStartTask", "timeout">>
    /\ UNCHANGED <<build, mounted, currentDate, tasks, history, isGenerating, storage>>

\* App.tsx:123-125: the updater of handleCompleteTask, which sets actualMinutes.
CompleteInApp(prev, task, duration) ==
    LET F(t) == IF t.id = task.id
                THEN [t EXCEPT !.status = "COMPLETED", !.actualMinutes = duration]
                ELSE t
    IN  [i \in 1..Len(prev) |-> F(prev[i])]

\* part_000:108-110: the updater of handleCompleteTask, which sets
\* actualDurationSeconds.
CompleteInPart000(prev, task, durationSeconds) ==
    LET F(t) == IF t.id = task.id
                THEN [t EXCEPT !.status = "COMPLETED",
                               !.actualDurationSeconds = durationSeconds]
                ELSE t
    IN  [i \in 1..Len(prev) |-> F(prev[i])]

\* App.tsx:120-121 handleCompleteTask up to its await; part_000:107-114
\* handleCompleteTask. The code puts no limit on the calls that await; limit caps
\* them.
handleCompleteTaskUpTo(limit, task, duration) ==
    IF build = "App.tsx"
    THEN /\ Cardinality(pending) < limit
         /\ pending' = pending \cup
                {Continuation("completeMessage", currentDate, <<>>, task, duration)}
         /\ UNCHANGED <<tasks, history, storage, appState, activeTask, scheduleVars,
                        formVars>>
    ELSE /\ updateTasks(CompleteInPart000(tasks, task, duration), currentDate)
         /\ Render("PLANNING", NullTask)
         /\ UNCHANGED pending

handleCompleteTask(task, duration) == handleCompleteTaskUpTo(MaxInFlight, task, duration)

\* App.tsx:121-133: handleCompleteTask from its await on: the update through the
\* updateTasks of the closure, the message, the timeout of 3000 ms.
CompleteMessageResolves ==
    /\ Interactive
    /\ \E c \in pending :
        /\ c.kind = "completeMessage"
        /\ updateTasks(CompleteInApp(tasks, c.task, c.duration), c.date)
        /\ pending' = (pending \ {c}) \cup {[c EXCEPT !.kind = "completeTimeout"]}
    /\ modalMessage' = TRUE
    /\ lastOp' = <<"handleCompleteTask", "message">>
    /\ UNCHANGED <<build, mounted, appState, currentDate, activeTask, isGenerating,
                   timerVars, scheduleVars, formVars>>

\* App.tsx:129-133: the timeout of handleCompleteTask fires.
CompleteTimeoutFires ==
    /\ Interactive
    /\ \E c \in pending :
        /\ c.kind = "completeTimeout"
        /\ pending' = pending \ {c}
    /\ Render("PLANNING", NullTask)
    /\ modalMessage' = FALSE
    /\ lastOp' = <<"handleCompleteTask", "timeout">>
    /\ UNCHANGED <<build, mounted, currentDate, tasks, history, isGenerating, storage>>

\* ------------------------------------------------------------------ Timer

\* Timer.tsx:24
isOvertime == timeLeft < 0

\* Timer.tsx:40 handleToggle, and the tick effect of the render that follows.
handleToggle ==
    /\ isActive' = ~isActive
    /\ tickEffect(~isActive)

\* The interval's callback counting down without counting up (C8 tells this
\* variant from tick).
tickNotCounted ==
    /\ timeLeft' = timeLeft - 1
    /\ totalTimeSpent' = totalTimeSpent

\* Timer.tsx:32-35: the callback of an interval.
tick ==
    /\ timeLeft' = timeLeft - 1
    /\ totalTimeSpent' = totalTimeSpent + 1

\* The reset button shown also in overtime (C14 tells this variant from
\* ResetShown).
ResetShownInOvertime == ~isActive /\ timeLeft # activeTask.estimatedMinutes * 60

\* Timer.tsx:139-144: the reset button and what its click does.
ResetShown == ~isActive /\ timeLeft # activeTask.estimatedMinutes * 60 /\ ~isOvertime

reset ==
    /\ timeLeft' = activeTask.estimatedMinutes * 60
    /\ totalTimeSpent' = 0

Toggle ==
    /\ Clickable
    /\ TimerMounted(appState, activeTask)
    /\ handleToggle
    /\ lastOp' = <<"handleToggle", "">>
    /\ UNCHANGED <<build, mounted, appVars, storage, pending, timeLeft, totalTimeSpent,
                   ticksReceived, resetUsed, scheduleVars, formVars>>

\* An interval fires. The state updates of its callback do nothing when no Timer
\* is mounted.
Tick ==
    /\ Interactive
    /\ liveIntervals # {}
    /\ ticksReceived < MaxTicks
    /\ IF TimerMounted(appState, activeTask)
         THEN tick /\ ticksReceived' = ticksReceived + 1
         ELSE UNCHANGED <<timeLeft, totalTimeSpent, ticksReceived>>
    /\ lastOp' = <<"tick", "">>
    /\ UNCHANGED <<build, mounted, appVars, storage, pending, isActive, interval,
                   liveIntervals, resetUsed, scheduleVars, formVars>>

Reset ==
    /\ Clickable
    /\ TimerMounted(appState, activeTask)
    /\ ResetShown
    /\ reset
    /\ resetUsed' = TRUE
    /\ lastOp' = <<"reset", "">>
    /\ UNCHANGED <<build, mounted, appVars, storage, pending, isActive, interval,
                   liveIntervals, ticksReceived, scheduleVars, formVars>>

\* Timer.tsx:42-45 handleFinish: onComplete gets the task the Timer shows and
\* totalTimeSpent. In part_000 the Timer is gone with the same render.
handleFinish(limit) ==
    /\ handleCompleteTaskUpTo(limit, activeTask, totalTimeSpent)
    /\ IF build = "App.tsx"
         THEN /\ isActive' = FALSE
              /\ IF isActive THEN tickEffect(FALSE)
                   ELSE UNCHANGED <<interval, liveIntervals>>
              /\ UNCHANGED <<timeLeft, totalTimeSpent, ticksReceived, resetUsed>>
         ELSE TRUE

\* Timer.tsx:130-137: the finish button.
Finish ==
    /\ Clickable
    /\ TimerMounted(appState, activeTask)
    /\ handleFinish(MaxInFlight)
    /\ lastOp' = <<"handleFinish", totalTimeSpent>>
    /\ UNCHANGED <<build, mounted, currentDate, isGenerating, modalMessage>>

\* Timer.tsx:130-137 with App.tsx:120-121: the finish button pressed once more
\* while an earlier press still awaits its message; the Timer stays on the page
\* until the timeout of that press fires.
FinishAgain ==
    /\ Clickable
    /\ TimerMounted(appState, activeTask)
    /\ \E c \in pending : c.kind = "completeMessage"
    /\ handleFinish(MaxInFlight + 1)
    /\ lastOp' = <<"handleFinish", totalTimeSpent>>
    /\ UNCHANGED <<build, mounted, currentDate, isGenerating, modalMessage>>

\* --------------------------------------------------------------- reordering

\* a.splice(i, 1) for the 1-based position i: nothing goes when i is past the end.
RemoveAt(a, i) ==
    IF i > Len(a) THEN a ELSE SubSeq(a, 1, i - 1) \o SubSeq(a, i + 1, Len(a))

\* a.splice(i, 0, x) for the 1-based position i: at the end when i is past it.
InsertAt(a, i, x) ==
    IF i > Len(a) THEN Append(a, x)
    ELSE SubSeq(a, 1, i - 1) \o <<x>> \o SubSeq(a, i, Len(a))

\* a[i], which is undefined past the end.
At(a, i) == IF i \in 1..Len(a) THEN a[i] ELSE UndefinedItem

\* Schedule.tsx:42, 47-52: what moveTask hands to onTasksChange for the task
\* list ts, when index and targetIndex are positions of its pending tasks.
swappedTasks(ts, index, targetIndex) ==
    LET newPending == pendingTasks(ts)
        swapped == [newPending EXCEPT ![index] = newPending[targetIndex],
                                      ![targetIndex] = newPending[index]]
    IN  swapped \o completedTasks(ts)

\* Schedule.tsx:41-53 moveTask
moveTask(direction, index) ==
    LET targetIndex == IF direction = "up" THEN index - 1 ELSE index + 1
    IN  IF targetIndex < 1 \/ targetIndex > Len(pendingTasks(tasks))
        THEN UNCHANGED <<tasks, history, storage>>
        ELSE updateTasks(swappedTasks(tasks, index, targetIndex), currentDate)

\* Schedule.tsx:161-174: the up and down buttons of a pending item (the first
\* item's up and the last item's down are disabled).
MoveTask ==
    /\ Clickable
    /\ appState = "PLANNING"
    /\ \E index \in 1..Len(pendingTasks(tasks)), direction \in {"up", "down"} :
        /\ direction = "up" => index # 1
        /\ direction = "down" => index # Len(pendingTasks(tasks))
        /\ moveTask(direction, index)
    /\ lastOp' = <<"moveTask", "">>
    /\ UNCHANGED <<build, mounted, appState, currentDate, activeTask, isGenerating,
                   modalMessage, pending, timerVars, scheduleVars, formVars>>

\* Schedule.tsx:56-58 handleDragStart
handleDragStart(index) == draggedItemIndex' = index

DragStart ==
    /\ Clickable
    /\ ~isGenerating
    /\ appState = "PLANNING"
    /\ \E index \in 1..Len(pendingTasks(tasks)) : handleDragStart(index)
    /\ lastOp' = <<"handleDragStart", "">>
    /\ UNCHANGED <<build, mounted, appVars, storage, pending, timerVars, showAddModal, formVars>>

\* The reinsertion at the position the target has once the dragged item is
\* taken out (C18 tells this variant from reinsertedTasks).
reinsertedTasksBeforeTarget(ts, draggedIndex, index) ==
    LET pendingNow == pendingTasks(ts)
        target == IF draggedIndex < index THEN index - 1 ELSE index
    IN  InsertAt(RemoveAt(pendingNow, draggedIndex), target, At(pendingNow, draggedIndex))
            \o completedTasks(ts)

\* Schedule.tsx:64-73: what handleDragOver hands to onTasksChange for the task
\* list ts, the item at draggedIndex being dragged over the one at index.
reinsertedTasks(ts, draggedIndex, index) ==
    LET pendingNow == pendingTasks(ts)
        draggedItem == At(pendingNow, draggedIndex)
        newPending == InsertAt(RemoveAt(pendingNow, draggedIndex), index, draggedItem)
    IN  newPending \o completedTasks(ts)

\* Schedule.tsx:60-74 handleDragOver
handleDragOver(index) ==
    IF draggedItemIndex = NullIndex \/ draggedItemIndex = index
    THEN UNCHANGED <<tasks, history, storage, draggedItemIndex>>
    ELSE /\ draggedItemIndex' = index
         /\ updateTasks(reinsertedTasks(tasks, draggedItemIndex, index), currentDate)

\* Schedule.tsx:144: the pointer of a drag is over the pending item at index
\* (nothing is under the pointer but the overlay of App.tsx:202 while it shows);
\* lastOp keeps the draggedItemIndex the handler found.
DragOver ==
    /\ Interactive
    /\ ~isGenerating
    /\ appState = "PLANNING"
    /\ \E index \in 1..Len(pendingTasks(tasks)) : handleDragOver(index)
    /\ lastOp' = <<"handleDragOver", draggedItemIndex>>
    /\ UNCHANGED <<build, mounted, appState, currentDate, activeTask, isGenerating,
                   modalMessage, pending, timerVars, showAddModal, formVars>>

\* Schedule.tsx:76-78 handleDragEnd: the gesture that handleDragStart began ends.
DragEnd ==
    /\ Interactive
    /\ appState = "PLANNING"
    /\ draggedItemIndex # NullIndex
    /\ draggedItemIndex' = NullIndex
    /\ lastOp' = <<"handleDragEnd", "">>
    /\ UNCHANGED <<build, mounted, appVars, storage, pending, timerVars, showAddModal, formVars>>

\* ---------------------------------------------------------- specifications

\* The task list and the history over the days: the forms, the schedule request
\* and its answer, the list's buttons and drags, the calendar.
Next ==
    \/ MountEffects
    \/ CalendarSelectDate
    \/ BackToToday
    \/ OpenCalendar
    \/ ShowPlanning
    \/ AddTaskByEnter
    \/ AddTaskByClick
    \/ RemoveTask
    \/ ToggleAddModal
    \/ CreateSchedule
    \/ ScheduleResolves
    \/ DeleteTask
    \/ MoveTask
    \/ DragStart
    \/ DragOver
    \/ DragEnd

Spec == Init /\ [][Next]_vars

\* The timer: the tasks a previous session stored are started, timed and finished.
NextTimer ==
    \/ MountEffects
    \/ ShowPlanning
    \/ StartTask
    \/ StartMessageResolves
    \/ StartTimeoutFires
    \/ Toggle
    \/ Tick
    \/ Reset
    \/ Finish
    \/ CompleteMessageResolves
    \/ CompleteTimeoutFires

InitTimer == InitWith(TimerStoredItems)

SpecTimer == InitTimer /\ [][NextTimer]_vars

\* The timer and the completion it reports, the finish button pressed up to
\* twice per run of the Timer.
NextFinish ==
    \/ MountEffects
    \/ ShowPlanning
    \/ StartTask
    \/ StartMessageResolves
    \/ StartTimeoutFires
    \/ Toggle
    \/ Tick
    \/ Finish
    \/ FinishAgain
    \/ CompleteMessageResolves
    \/ CompleteTimeoutFires

SpecFinish == InitTimer /\ [][NextFinish]_vars

\* The timer and the delayed starts that show it, the play button of the list
\* pressed up to twice before a timer shows.
NextStart ==
    \/ MountEffects
    \/ ShowPlanning
    \/ StartTask
    \/ StartAgain
    \/ StartMessageResolves
    \/ StartTimeoutFires
    \/ Toggle
    \/ Tick
    \/ Reset

SpecStart == InitTimer /\ [][NextStart]_vars

\* One day's list: tasks are added, deleted, started, finished and reordered.
NextList ==
    \/ MountEffects
    \/ ShowPlanning
    \/ AddTaskByClick
    \/ ToggleAddModal
    \/ DeleteTask
    \/ StartTask
    \/ StartMessageResolves
    \/ StartTimeoutFires
    \/ Finish
    \/ CompleteMessageResolves
    \/ CompleteTimeoutFires
    \/ MoveTask
    \/ DragStart
    \/ DragOver
    \/ DragEnd

SpecList == Init /\ [][NextList]_vars

\* The lists of several days, as a previous session stored them: tasks are
\* deleted, started, finished and reordered, and the day shown changes in between.
NextDays ==
    \/ MountEffects
    \/ CalendarSelectDate
    \/ BackToToday
    \/ OpenCalendar
    \/ ShowPlanning
    \/ DeleteTask
    \/ StartTask
    \/ StartMessageResolves
    \/ StartTimeoutFires
    \/ Finish
    \/ CompleteMessageResolves
    \/ CompleteTimeoutFires
    \/ MoveTask

InitDays == InitWith(DaysStoredItems)

SpecDays == InitDays /\ [][NextDays]_vars

\* The form: minutes are typed, tasks are added with the button and with Enter,
\* and removed again.
NextForm ==
    \/ MountEffects
    \/ ToggleAddModal
    \/ MinutesChange
    \/ AddTaskByEnter
    \/ AddTaskByClick
    \/ RemoveTask
    \/ DeleteTask

SpecForm == Init /\ [][NextForm]_vars

\* The form and the list again, with the effects of the first render and the
\* render that follows them as steps of their own.
NextMount ==
    \/ FirstRenderEffects
    \/ LoadedRender
    \/ ToggleAddModal
    \/ MinutesChange
    \/ AddTaskByEnter
    \/ AddTaskByClick
    \/ RemoveTask
    \/ DeleteTask

SpecMount == Init /\ [][NextMount]_vars

\* The round trip of C3, one user step at a time: open the calendar and select d2,
\* open the add form and add a task, open the calendar and select d1, open it
\* again and select d2. lastOp holds how far the round trip is, and its days and
\* the task added.
RoundTripAt(step) == lastOp[1] = "roundTrip" /\ lastOp[2].step = step

RoundTripBegin ==
    /\ Clickable
    /\ lastOp[1] = "mount"
    /\ HeaderButtons
    /\ \E d1, d2 \in Instants :
        /\ getDateKey(d1) # getDateKey(d2)
        /\ lastOp' = <<"roundTrip", [step |-> 1, d1 |-> d1, d2 |-> d2, added |-> NullTask]>>
    /\ Render("CALENDAR", activeTask)
    /\ UNCHANGED <<build, mounted, currentDate, tasks, history, isGenerating,
                   modalMessage, storage, pending>>

RoundTripSelect ==
    /\ Clickable
    /\ appState = "CALENDAR"
    /\ \E step \in {1, 5, 7} :
        /\ RoundTripAt(step)
        /\ handleDateChange(IF step = 5 THEN lastOp[2].d1 ELSE lastOp[2].d2)
        /\ lastOp' = <<"roundTrip", [lastOp[2] EXCEPT !.step = step + 1]>>
    /\ UNCHANGED <<build, mounted>>

RoundTripOpenForm ==
    /\ Clickable
    /\ appState = "PLANNING"
    /\ RoundTripAt(2)
    /\ showAddModal' = TRUE
    /\ TaskInputInitial
    /\ lastOp' = <<"roundTrip", [lastOp[2] EXCEPT !.step = 3]>>
    /\ UNCHANGED <<build, mounted, appVars, storage, pending, timerVars, draggedItemIndex>>

RoundTripAdd ==
    /\ Clickable
    /\ TaskInputShown(appState, showAddModal)
    /\ RoundTripAt(3)
    /\ \E p \in PresetInputs, ms \in ClockReadings :
        /\ handleAddTask(<<"hw">>, FALSE, <<>>, p, ms)
        /\ lastOp' = <<"roundTrip",
                       [lastOp[2] EXCEPT !.step = 4,
                                         !.added = NewTask(<<"hw">>, <<p>>, newTaskMinutes,
                                                           FALSE, p, ms)]>>
    /\ UNCHANGED <<build, mounted, appState, currentDate, activeTask, isGenerating,
                   modalMessage, pending, timerVars>>

RoundTripOpenCalendar ==
    /\ Clickable
    /\ HeaderButtons
    /\ RoundTripAt(4) \/ RoundTripAt(6)
    /\ Render("CALENDAR", activeTask)
    /\ lastOp' = <<"roundTrip", [lastOp[2] EXCEPT !.step = lastOp[2].step + 1]>>
    /\ UNCHANGED <<build, mounted, currentDate, tasks, history, isGenerating,
                   modalMessage, storage, pending>>

NextRoundTrip ==
    \/ MountEffects
    \/ RoundTripBegin
    \/ RoundTripSelect
    \/ RoundTripOpenForm
    \/ RoundTripAdd
    \/ RoundTripOpenCalendar

SpecRoundTrip == Init /\ [][NextRoundTrip]_vars

\* The two ways of reordering, applied to task lists of every make: the lists are
\* drawn at the start (one more task than an add may reach, so that a drag can
\* pass over an item), then items are swapped and dragged.
ReorderTask(ms, status) ==
    Task(AddId(ms), <<"hw">>, <<"Rest">>, 30, status, TRUE, "coffee")

ReorderInputs ==
    LET items == {ReorderTask(ms, st) : ms \in 0..MaxClock, st \in {"PENDING", "COMPLETED"}}
    IN  UNION {[1..n -> items] : n \in 0..(MaxTasks + 1)}

InitReorder ==
    /\ build \in Builds
    /\ mounted = TRUE
    /\ appState = "PLANNING"
    /\ currentDate = 0
    /\ tasks \in ReorderInputs
    /\ history = SpreadWith(EmptyHistory, getDateKey(currentDate), tasks)
    /\ activeTask = NullTask
    /\ isGenerating = FALSE
    /\ modalMessage = FALSE
    /\ storage = Stringify(history)
    /\ pending = {}
    /\ timeLeft = 0
    /\ isActive = FALSE
    /\ totalTimeSpent = 0
    /\ interval = NullInterval
    /\ liveIntervals = {}
    /\ ticksReceived = 0
    /\ resetUsed = FALSE
    /\ draggedItemIndex = NullIndex
    /\ showAddModal = FALSE
    /\ newTaskMinutes = 30
    /\ lastOp = <<"init", "">>

NextReorder ==
    \/ MoveTask
    \/ DragStart
    \/ DragOver
    \/ DragEnd

SpecReorder == InitReorder /\ [][NextReorder]_vars

\* The partitions of Schedule.tsx:17-18 computed for task sequences of every
\* status: the sequences are drawn at the start, one step computes the partitions.
PartitionTask(ms, status) ==
    [Task(AddId(ms), <<"hw">>, <<"Rest">>, 30, status, TRUE, "coffee")
        EXCEPT !.actualDurationSeconds = IF status = "COMPLETED" THEN 60 * ms ELSE Undefined]

PartitionInputs ==
    UNION {[1..n -> {PartitionTask(ms, st) : ms \in ClockReadings, st \in TaskStatus}] :
              n \in 0..MaxTasks}

InitPartition ==
    /\ build \in Builds
    /\ mounted = TRUE
    /\ appState = "PLANNING"
    /\ currentDate = 0
    /\ tasks \in PartitionInputs
    /\ history = SpreadWith(EmptyHistory, getDateKey(currentDate), tasks)
    /\ activeTask = NullTask
    /\ isGenerating = FALSE
    /\ modalMessage = FALSE
    /\ storage = Stringify(history)
    /\ pending = {}
    /\ timeLeft = 0
    /\ isActive = FALSE
    /\ totalTimeSpent = 0
    /\ interval = NullInterval
    /\ liveIntervals = {}
    /\ ticksReceived = 0
    /\ resetUsed = FALSE
    /\ draggedItemIndex = NullIndex
    /\ showAddModal = FALSE
    /\ newTaskMinutes = 30
    /\ lastOp = <<"init", "">>

\* A render of Schedule: lastOp holds the partitions it computes.
RenderSchedule ==
    /\ lastOp[1] = "init"
    /\ lastOp' = <<"Schedule", [pendingTasks |-> pendingTasks(tasks),
                                 completedTasks |-> completedTasks(tasks)]>>
    /\ UNCHANGED <<build, mounted, appVars, storage, pending, timerVars, scheduleVars, formVars>>

NextPartition == RenderSchedule

SpecPartition == InitPartition /\ [][NextPartition]_vars

\* ------------------------------------------------- the store and the days

\* C1: in every reachable state the task list equals the history entry stored
\* under the key of the active day, or is empty when that key has no entry.
C1_TasksAreActiveDayEntry == tasks = Lookup(history, getDateKey(currentDate))

\* The day keys whose entry differs between two histories.
ChangedKeys(h1, h2) ==
    {k \in (DOMAIN h1) \cup (DOMAIN h2) :
        \/ k \notin DOMAIN h1
        \/ k \notin DOMAIN h2
        \/ h1[k] # h2[k]}

\* C2: a step of the running application that writes the task sequence under one
\* day key leaves the entry of every other key as it was: at most one key's entry
\* differs afterwards, and no other key appears or disappears.
C2_HistoryIsolation ==
    [][mounted => Cardinality(ChangedKeys(history, history')) <= 1]_vars

\* A task was added to the active day while another day holds tasks of its own.
C2_Witness ==
    /\ lastOp[1] = "handleAddTask"
    /\ \E d1, d2 \in DOMAIN history :
        /\ d1 = getDateKey(currentDate)
        /\ d2 # d1
        /\ history[d1] # <<>>
        /\ history[d2] # <<>>

\* C4: selecting a day makes the task list that day's stored sequence, or empty
\* when the day has no entry, and changes nothing of the history or of what is
\* stored.
C4_SelectingADayOnlyReads ==
    [][lastOp'[1] = "handleDateChange" =>
          /\ tasks' = Lookup(history, getDateKey(currentDate'))
          /\ history' = history
          /\ storage' = storage]_vars

\* A day without an entry was selected while another day has tasks.
C4_Witness ==
    /\ lastOp[1] = "handleDateChange"
    /\ getDateKey(currentDate) \notin DOMAIN history
    /\ tasks = <<>>
    /\ \E d \in DOMAIN history : history[d] # <<>>

\* C3: for days D1 # D2, after selecting D2, adding a task, selecting D1 and
\* selecting D2 again, the task list shown holds the added task exactly once.
C3_RoundTripShowsAddedTaskOnce ==
    RoundTripAt(8) =>
        /\ Count(tasks, lastOp[2].added) = 1
        /\ Cardinality({i \in 1..Len(tasks) : tasks[i].id = lastOp[2].added.id}) = 1

\* The round trip is over, on a day that had a task before the one added.
C3_Witness == RoundTripAt(8) /\ Len(tasks) = 2

\* The failures of the gateway call that C7 names.
GatewayFailures == {"throws", "malformed", "empty"}

\* The tasks installed repeat the descriptors: same length, same order, no break,
\* the placeholder emoji.
InstalledFallback(installed, descriptors) ==
    /\ Len(installed) = Len(descriptors)
    /\ \A i \in 1..Len(descriptors) :
        /\ installed[i].title = descriptors[i].title
        /\ installed[i].subject = descriptors[i].subject
        /\ installed[i].estimatedMinutes = descriptors[i].estimatedMinutes
        /\ installed[i].isBreak = FALSE
        /\ installed[i].emoji = "memo"

\* C7: whenever the gateway call fails (it throws, or answers with a malformed or
\* an empty text), creating the schedule installs the submitted descriptors in
\* their order, each with isBreak false and the placeholder emoji.
C7_FallbackOnFailure ==
    [][\A c \in pending :
          (/\ c.kind = "schedule"
           /\ c \notin pending'
           /\ lastOp'[1] = "handleCreateSchedule"
           /\ lastOp'[2] \in GatewayFailures)
          => InstalledFallback(tasks', c.list)]_vars

\* ------------------------------------------------------------- reordering

\* The ids of a task sequence, in its order.
Ids(ts) == [i \in 1..Len(ts) |-> ts[i].id]

\* Two sequences hold the same elements the same number of times.
SameMultiset(a, b) ==
    \A x \in {a[i] : i \in 1..Len(a)} \cup {b[i] : i \in 1..Len(b)} :
        Count(a, x) = Count(b, x)

\* C5: every up/down swap and every drag reinsertion, also of a drag gesture that
\* never ends, leaves the pending ids a permutation of what they were, leaves the
\* completed tasks and their order as they were, and neither duplicates nor drops
\* an element of the stored sequence.
C5_ReorderPreservesSet ==
    [][lastOp'[1] \in {"moveTask", "handleDragOver"} =>
          /\ SameMultiset(tasks, tasks')
          /\ SameMultiset(Ids(pendingTasks(tasks)), Ids(pendingTasks(tasks')))
          /\ completedTasks(tasks') = completedTasks(tasks)]_vars

C8_ElapsedIsTicksReceived ==
    [][(lastOp'[1] = "handleFinish" /\ ~resetUsed) => lastOp'[2] = ticksReceived]_vars

\* Finish was pressed after as many ticks as the model allows.
C8_Witness ==
    /\ lastOp = <<"handleFinish", MaxTicks>>
    /\ MaxTicks > 1

\* The task with this id holds this actualDurationSeconds.
Recorded(ts, id, seconds) ==
    \A i \in 1..Len(ts) : ts[i].id = id => ts[i].actualDurationSeconds = seconds

\* C9: Finish can be pressed whenever a timer is shown (never started, running,
\* paused, overtime), and the actualDurationSeconds stored with the completed task
\* is the elapsed seconds of the timer when Finish was pressed.
C9_FinishStoresElapsed ==
    [][/\ (TimerMounted(appState, activeTask) /\ Clickable
                /\ Cardinality(pending) < MaxInFlight)
           => ENABLED Finish
       /\ (lastOp'[1] = "handleFinish" /\ build = "part_000")
           => Recorded(tasks', activeTask.id, totalTimeSpent)
       /\ (lastOp'[1] = "handleFinish" /\ build = "App.tsx")
           => \E c \in pending' \ pending : c.duration = totalTimeSpent
       /\ \A c \in pending :
              (c.kind = "completeMessage" /\ c \notin pending')
              => Recorded(tasks', c.task.id, c.duration)]_vars

\* The effective minutes of C10, times 60: of a completed task its
\* actualDurationSeconds when present (also when 0), else its estimate.
EffectiveMinutes(t) ==
    IF t.status = "COMPLETED" /\ t.actualDurationSeconds # Undefined
    THEN t.actualDurationSeconds
    ELSE t.estimatedMinutes * 60

\* The progress C10 states, as a fraction.
StatedProgress(ts) ==
    LET done == completedTasks(ts)
    IN  [num |-> SumSeq([i \in 1..Len(done) |-> EffectiveMinutes(done[i])]) * 100,
         den |-> SumSeq([i \in 1..Len(ts) |-> EffectiveMinutes(ts[i])])]

\* C10: the progress percentage of the task list is the effective minutes of the
\* completed tasks over the effective minutes of all tasks, times 100.
C10_ProgressOfEffectiveMinutes ==
    (~Crashed /\ Len(tasks) > 0) =>
        progressPercent(tasks).num * StatedProgress(tasks).den
            = StatedProgress(tasks).num * progressPercent(tasks).den

\* ---------------------------------------------------------------- progress

\* Schedule is rendered, and computes the progress of the task list.
ScheduleRendered == mounted /\ ~Crashed /\ appState = "PLANNING"

\* C11: the progress of an empty task list is 0, and the progress of no task
\* list the application can reach is computed by a division by zero.
C11_ProgressNeverDividesByZero ==
    ScheduleRendered =>
        /\ tasks = <<>> => progressPercent(tasks).num = 0
        /\ progressPercent(tasks).den # 0

\* ------------------------------------------------------------------ status

\* The tasks of a sequence with this id, and those of them that are completed.
WithId(ts, id) == {i \in 1..Len(ts) : ts[i] # UndefinedItem /\ ts[i].id = id}

CompletedWithId(ts, id) == {i \in WithId(ts, id) : ts[i].status = "COMPLETED"}

\* C12: in the sequence of every day, an id that has a completed task keeps as
\* many completed tasks as it had for as long as the sequence holds a task with
\* that id (whatever is added, deleted, reordered or completed, and whichever day
\* is shown in between), and no task of any day is ACTIVE or SKIPPED.
C12_StatusOnlyMovesToCompleted ==
    [][/\ \A k \in (DOMAIN history) \cap (DOMAIN history') :
            \A i \in 1..Len(history[k]) :
                LET id == history[k][i].id
                IN  \/ WithId(history'[k], id) = {}
                    \/ Cardinality(CompletedWithId(history'[k], id))
                           >= Cardinality(CompletedWithId(history[k], id))
       /\ \A k \in DOMAIN history' :
            \A i \in 1..Len(history'[k]) :
                history'[k][i] # UndefinedItem
                    => history'[k][i].status \in {"PENDING", "COMPLETED"}]_vars

\* No two tasks of the sequence have the same id.
DistinctIds(ts) ==
    \A i, j \in 1..Len(ts) :
        (i # j /\ ts[i] # UndefinedItem /\ ts[j] # UndefinedItem) => ts[i].id # ts[j].id

\* C13: in every reachable state the tasks of each day's sequence, and of the
\* task list shown, have pairwise distinct ids, whatever the clock read when
\* they were added or scheduled.
C13_IdsDistinctWithinDay ==
    /\ DistinctIds(tasks)
    /\ \A k \in DOMAIN history : DistinctIds(history[k])

\* C14: the reset button can be pressed only while the timer is not running and
\* the remaining time is not negative; pressing it sets the remaining time to
\* estimatedMinutes * 60 and the elapsed time to 0 and leaves the timer not
\* running; a mounted timer that is in overtime stays in overtime, so that reset
\* is not available again.
C14_ResetOnlyPausedBeforeOvertime ==
    [][/\ (ENABLED Reset) => (~isActive /\ timeLeft >= 0)
       /\ lastOp'[1] = "reset" =>
             /\ ~isActive /\ timeLeft >= 0
             /\ timeLeft' = activeTask.estimatedMinutes * 60
             /\ totalTimeSpent' = 0
             /\ ~isActive'
       /\ (/\ TimerMounted(appState, activeTask)
           /\ TimerMounted(appState', activeTask')
           /\ isOvertime)
          => (timeLeft' < 0 /\ ~ENABLED Reset)]_vars

\* A timer that had counted was reset.
C14_Witness ==
    /\ lastOp[1] = "reset"
    /\ ticksReceived > 0
    /\ timeLeft = activeTask.estimatedMinutes * 60
    /\ totalTimeSpent = 0

\* ---------------------------------------------------------------- storage

\* C15: when the stored record is absent or cannot be parsed, the application
\* starts with an empty history and an empty task list and runs on; when it can
\* be parsed, the history is the stored record and the task list is the entry of
\* today (the day the load effect reads) when the record has one.
C15_LoadOnStart ==
    [][lastOp'[1] = "mount" =>
          /\ storage.kind \in {"none", "corrupt"} =>
                /\ history' = EmptyHistory
                /\ tasks' = <<>>
                /\ mounted' /\ ~HasUndefined(tasks')
          /\ storage.kind = "json" =>
                /\ history' = storage.value
                /\ getDateKey(lastOp'[2]) \in DOMAIN storage.value
                      => tasks' = storage.value[getDateKey(lastOp'[2])]]_vars

\* The application started from a stored record and shows the tasks of today.
C15_Witness ==
    /\ lastOp[1] = "mount"
    /\ history # EmptyHistory
    /\ tasks = history[getDateKey(lastOp[2])]
    /\ tasks # <<>>

\* C16: once the application has started, and after every change of a day's
\* task list (whichever day the write is keyed by), what is stored is the whole
\* history: parsing the stored item gives the history in memory.
C16_PersistedEqualsHistory ==
    mounted => (storage.kind = "json" /\ storage.value = history)

\* A task was added, and stored, while the history holds the lists of two days.
C16_Witness ==
    /\ lastOp[1] = "handleAddTask"
    /\ Cardinality(DOMAIN history) > 1
    /\ \A k \in DOMAIN history : history[k] # <<>>
    /\ storage.value = history

\* C17: when the answer of the gateway arrives after the day shown has changed
\* from the day the request was made for, it changes neither the task list
\* shown nor the history entry of the day shown.
C17_StaleScheduleNotApplied ==
    [][\A c \in pending :
          (/\ c.kind = "schedule"
           /\ c \notin pending'
           /\ getDateKey(currentDate) # getDateKey(c.date))
          => /\ tasks' = tasks
             /\ Lookup(history', getDateKey(currentDate))
                    = Lookup(history, getDateKey(currentDate))]_vars

\* --------------------------------------------------- swaps against drags

\* The task list after the swaps of adjacent pending items that take the item
\* at position from to position to.
RECURSIVE SwapsTowards(_, _, _)
SwapsTowards(ts, from, to) ==
    IF from = to THEN ts
    ELSE LET next == IF from < to THEN from + 1 ELSE from - 1
         IN  SwapsTowards(swappedTasks(ts, from, next), next, to)

\* C18: dragging the pending item at position i over its neighbour at i+1 or
\* i-1 stores the same sequence as the down or up swap of the two, a swap
\* stores the same sequence as that drag, and a drag over any other position
\* stores what the swaps that take the item there store.
C18_DragEqualsSwaps ==
    [][/\ (lastOp'[1] = "handleDragOver" /\ draggedItemIndex' # draggedItemIndex) =>
             /\ tasks' = SwapsTowards(tasks, draggedItemIndex, draggedItemIndex')
             /\ history' = SpreadWith(history, getDateKey(currentDate), tasks')
       /\ lastOp'[1] = "moveTask" =>
             \E i, j \in 1..Len(pendingTasks(tasks)) :
                 /\ j = i + 1 \/ j = i - 1
                 /\ tasks' = swappedTasks(tasks, i, j)
                 /\ tasks' = reinsertedTasks(tasks, i, j)
                 /\ history' = SpreadWith(history, getDateKey(currentDate), tasks')]_vars

\* The first of three pending items with different ids was dragged over the
\* second, which is first now.
C18_Witness ==
    /\ lastOp = <<"handleDragOver", 1>>
    /\ draggedItemIndex = 2
    /\ Len(pendingTasks(tasks)) = 3
    /\ DistinctIds(tasks)
    /\ history[getDateKey(currentDate)] = tasks

\* ------------------------------------------------- completing a task twice

\* The tasks of ts with this id that can still be completed.
OpenWithId(ts, id) == {i \in WithId(ts, id) : ts[i].status \in {"PENDING", "ACTIVE"}}

\* C19: a completion that finds no PENDING or ACTIVE task with its id in the
\* task list of the active day leaves the task list as it is, the recorded
\* duration of the task with that id included.
C19_CompleteOnlyOpenTask ==
    [][/\ \A c \in pending :
            (/\ c.kind = "completeMessage"
             /\ c \notin pending'
             /\ OpenWithId(tasks, c.task.id) = {})
            => tasks' = tasks
       /\ (/\ build = "part_000"
           /\ lastOp'[1] = "handleFinish"
           /\ OpenWithId(tasks, activeTask.id) = {})
            => tasks' = tasks]_vars

\* ------------------------------------------------------------ adding a task

\* after is before with one PENDING task more, which comes last among the
\* pending tasks; the tasks of before are all there, as they were and in their
\* order.
AppendedPending(before, after) ==
    /\ Len(after) = Len(before) + 1
    /\ SubSeq(after, 1, Len(before)) = before
    /\ after[Len(after)].status = "PENDING"
    /\ pendingTasks(after) = Append(pendingTasks(before), after[Len(after)])
    /\ completedTasks(after) = completedTasks(before)

\* C20: an add that goes through puts the new task, PENDING, last among the
\* pending tasks of the sequence of the active day, which is the task list
\* shown, and every task that sequence had keeps its status and its place
\* among the others.
C20_AddAppendsToPending ==
    [][(lastOp'[1] = "handleAddTask" /\ tasks' # tasks) =>
          /\ AppendedPending(Lookup(history, getDateKey(currentDate)),
                             Lookup(history', getDateKey(currentDate)))
          /\ tasks' = Lookup(history', getDateKey(currentDate))]_vars

\* C20 for the task list shown alone, whatever the history holds for the active
\* day: the append of handleAddTask by itself.
C20_AddAppendsToShownList ==
    [][(lastOp'[1] = "handleAddTask" /\ tasks' # tasks) =>
          AppendedPending(tasks, tasks')]_vars

\* ------------------------------------------------- the schedule installed

\* seq is made of items, one task per item and in their order, every task PENDING
\* and without a duration, and with no id that previous has.
InstalledFrom(seq, items, previous) ==
    /\ Len(seq) = Len(items)
    /\ \A i \in 1..Len(seq) :
          /\ seq[i].title = items[i].title
          /\ seq[i].subject = items[i].subject
          /\ seq[i].estimatedMinutes = items[i].estimatedMinutes
          /\ seq[i].status = "PENDING"
          /\ seq[i].actualDurationSeconds = Undefined
          /\ seq[i].actualMinutes = Undefined
          /\ WithId(previous, seq[i].id) = {}

\* The items the gateway returned to the continuation c, as far as the state
\* after the step tells: one of the outcomes of the kind the step recorded.
ReturnedTo(c, kind) ==
    {generateOptimizedSchedule(c.list, outcome).items :
        outcome \in {o \in GatewayOutcomes(c.list) : o.kind = kind}}

\* C21: when a create-schedule request resolves with a list, the sequence of the
\* active day (its history entry, which is the task list shown) is one PENDING
\* task without a duration per returned item, in the returned order, and no id
\* of the sequence it replaces occurs in it.
C21_ScheduleReplacesWholesale ==
    [][\A c \in pending :
          (c.kind = "schedule" /\ c \notin pending' /\ ~isGenerating') =>
              \E items \in ReturnedTo(c, lastOp'[2]) :
                  /\ InstalledFrom(Lookup(history', getDateKey(currentDate)), items,
                                   Lookup(history, getDateKey(currentDate)))
                  /\ tasks' = Lookup(history', getDateKey(currentDate))]_vars

\* C21 for a request that resolves while the day it was made for is shown, read
\* on the task list shown and on the entry of that day.
C21_ScheduleReplacesShownList ==
    [][\A c \in pending :
          (/\ c.kind = "schedule" /\ c \notin pending' /\ ~isGenerating'
           /\ getDateKey(c.date) = getDateKey(currentDate)) =>
              \E items \in ReturnedTo(c, lastOp'[2]) :
                  /\ InstalledFrom(tasks', items, tasks)
                  /\ InstalledFrom(history'[getDateKey(c.date)], items,
                                   Lookup(history, getDateKey(c.date)))]_vars

\* ------------------------------------------------------- input validation

\* C22: every task an add inserts (by the button or by Enter) has a title, a
\* subject and an estimatedMinutes in 1..480; an add that would not leaves the
\* task list as it is.
C22_AddInsertsValidTask ==
    [][(lastOp'[1] = "handleAddTask" /\ tasks' # tasks) =>
          LET added == tasks'[Len(tasks')]
          IN  /\ added.title # <<>>
              /\ added.subject # <<>>
              /\ added.estimatedMinutes \in 1..480]_vars

\* ---------------------------------------------------------- the tick source

\* handleFinish has run for the task of the Timer on the page: its completion is
\* still awaited, or shows its message.
TimerFinished ==
    /\ TimerMounted(appState, activeTask)
    /\ \E c \in pending : /\ c.kind \in {"completeMessage", "completeTimeout"}
                          /\ c.task.id = activeTask.id

\* At most one interval is live, and only while a Timer is mounted and running;
\* only the callback of a live interval of a mounted, running Timer moves
\* timeLeft or totalTimeSpent, by one second each time; and however often the
\* timer was paused and resumed, a timer never reset has counted as many
\* seconds as callbacks ran.
OneTickSource ==
    /\ Cardinality(liveIntervals') <= 1
    /\ liveIntervals' # {} =>
          /\ TimerMounted(appState', activeTask') /\ isActive'
          /\ liveIntervals' = {interval'}
    /\ lastOp'[1] = "tick" =>
          /\ TimerMounted(appState, activeTask) /\ isActive
          /\ timeLeft' = timeLeft - 1
          /\ totalTimeSpent' = totalTimeSpent + 1
    /\ (TimerMounted(appState', activeTask') /\ ~resetUsed') =>
          totalTimeSpent' = ticksReceived'

\* C23: there is at most one tick source, cancelled on pause, finish and
\* teardown: no tick moves timeLeft or totalTimeSpent while the timer is paused,
\* finished or gone, and each tick of a running timer counts one second, after
\* any number of pauses and resumptions.
C23_TickSourceCancelled ==
    [][/\ OneTickSource
       /\ lastOp'[1] = "tick" => ~TimerFinished]_vars

\* C23 without the finished timer: what holds of the interval of the tick
\* effect.
C23_OneLiveInterval == [][OneTickSource]_vars

\* ------------------------------------------------ the duration of a task

\* Exactly the COMPLETED tasks of h have an actualDurationSeconds.
DurationIffCompleted(h) ==
    \A k \in DOMAIN h : \A i \in 1..Len(h[k]) :
        h[k][i] # UndefinedItem =>
            (h[k][i].actualDurationSeconds # Undefined <=> h[k][i].status = "COMPLETED")

\* What is recorded as the duration of task t: actualDurationSeconds, and the
\* actualMinutes that App.tsx writes in its place.
RecordedDuration(t) == <<t.actualDurationSeconds, t.actualMinutes>>

\* Every task that is COMPLETED in h and still in the sequence of its day in g
\* has in g the duration recorded in h.
DurationKept(h, g) ==
    \A k \in (DOMAIN h) \cap (DOMAIN g) : \A i \in 1..Len(h[k]) :
        (h[k][i] # UndefinedItem /\ h[k][i].status = "COMPLETED") =>
            \A j \in WithId(g[k], h[k][i].id) :
                RecordedDuration(g[k][j]) = RecordedDuration(h[k][i])

\* C24: a task has an actualDurationSeconds exactly when it is COMPLETED, and
\* the duration recorded with a completed task is never changed by a later
\* step (a second press of Finish, a resumed timer, another completion).
C24_DurationWrittenOnce ==
    [][DurationIffCompleted(history') /\ DurationKept(history, history')]_vars

\* C24, second half alone: the duration recorded with a completed task is never
\* changed.
C24_DurationNeverRewritten == [][DurationKept(history, history')]_vars

\* ------------------------------------------------- the timer of a task

\* C25: whenever the Timer comes to show a task, be it a Timer that appears or
\* one that is on the page for another task, it is not running, timeLeft is
\* that task's estimatedMinutes * 60 and totalTimeSpent is 0.
C25_TimerStartsIdle ==
    [][(/\ TimerMounted(appState', activeTask')
        /\ ~TimerMounted(appState, activeTask) \/ activeTask' # activeTask) =>
           /\ ~isActive'
           /\ timeLeft' = activeTask'.estimatedMinutes * 60
           /\ totalTimeSpent' = 0]_vars

\* ------------------------------------------------------------ the day key

\* C26: the key of the day the user selects in the calendar is the key that
\* startup computes for today (getDateKey of the clock's reading) at every
\* instant of that calendar day, in every time zone: selecting today's date
\* gives the key startup used.
C26_DayKeyOfCalendarDate ==
    [][(lastOp'[1] = "handleDateChange" /\ Len(lastOp') = 3) =>
          \A now \in Instants :
              LocalDay(now, lastOp'[3].tz) = lastOp'[3].day
                  => getDateKey(currentDate') = getDateKey(now)]_vars

\* C26 where local time is UTC.
C26_DayKeyInUTC ==
    [][(lastOp'[1] = "handleDateChange" /\ Len(lastOp') = 3) =>
          \A now \in Instants :
              (lastOp'[3].tz = 0 /\ LocalDay(now, 0) = lastOp'[3].day)
                  => getDateKey(currentDate') = getDateKey(now)]_vars

\* ------------------------------------------- a completion and the other days

\* t with the status and the recorded duration of u.
WithOutcomeOf(t, u) ==
    [t EXCEPT !.status = u.status, !.actualDurationSeconds = u.actualDurationSeconds,
              !.actualMinutes = u.actualMinutes]

\* The sequence after holds the tasks of before, in their places, but for the
\* status and the duration of the tasks with this id.
SameTasksButOutcome(before, after, id) ==
    /\ Len(after) = Len(before)
    /\ \A i \in 1..Len(before) :
          \/ after[i] = before[i]
          \/ before[i].id = id /\ after[i] = WithOutcomeOf(before[i], after[i])

\* C27: when a completion is applied after the active day has changed since
\* Finish was pressed, the entry of every day in the history holds the tasks it
\* held, but for the status and the duration of the completed task.
C27_CompletionKeepsEveryDay ==
    [][\A c \in pending :
          (/\ c.kind = "completeMessage" /\ c \notin pending'
           /\ getDateKey(currentDate) # getDateKey(c.date)) =>
              \A k \in DOMAIN history :
                  /\ k \in DOMAIN history'
                  /\ SameTasksButOutcome(history[k], history'[k], c.task.id)]_vars

\* ------------------------------------------------------- startup and storage

\* The stored item holds every entry of h.
KeepsEntries(item, h) ==
    /\ item.kind = "json"
    /\ \A k \in DOMAIN h : k \in DOMAIN item.value /\ item.value[k] = h[k]

\* C28: when the application starts with a stored record that parses, the
\* stored item holds every day entry of that record after each step of
\* startup: after the effects of the first render and after the render that
\* follows.
C28_StartupKeepsStoredDays ==
    [][/\ (~mounted /\ pending = {} /\ storage.kind = "json")
           => KeepsEntries(storage', storage.value)
       /\ \A c \in pending : c.kind = "loaded" => KeepsEntries(storage', c.list)]_vars

\* C28 for the end of startup alone.
C28_StoredDaysAfterStartup ==
    [][\A c \in pending : c.kind = "loaded" => KeepsEntries(storage', c.list)]_vars

\* ------------------------------------------------ the end of a request

\* C29: whatever the gateway did (a list, an error, an empty text, a text that
\* parses to something that is no list), when handleCreateSchedule has run to
\* its end for a request the generating flag is cleared and the application
\* shows the planning screen.
C29_ScheduleRequestCompletes ==
    [][\A c \in pending :
          (c.kind = "schedule" /\ c \notin pending') =>
              /\ ~isGenerating'
              /\ appState' = "PLANNING"]_vars

\* C29 for the outcomes other than a text that parses to no list.
C29_ListOutcomesComplete ==
    [][\A c \in pending :
          (c.kind = "schedule" /\ c \notin pending' /\ lastOp'[2] # "object") =>
              /\ ~isGenerating'
              /\ appState' = "PLANNING"]_vars

\* ------------------------------------------------ remaining and elapsed

\* The Timer on the page counts down from the estimate of the task it shows.
RemainingPlusElapsed ==
    timeLeft + totalTimeSpent = activeTask.estimatedMinutes * 60

\* C30: while a Timer shows a task, timeLeft + totalTimeSpent is that task's
\* estimatedMinutes * 60; a tick takes one from timeLeft and adds one to
\* totalTimeSpent, below zero as well, and a running timer can always tick
\* again; a reset sets timeLeft to the estimate and totalTimeSpent to 0.
C30_RemainingPlusElapsed ==
    [][/\ TimerMounted(appState', activeTask') => RemainingPlusElapsed'
       /\ lastOp'[1] = "tick" =>
             /\ timeLeft' = timeLeft - 1
             /\ totalTimeSpent' = totalTimeSpent + 1
       /\ lastOp'[1] = "reset" =>
             /\ timeLeft' = activeTask.estimatedMinutes * 60
             /\ totalTimeSpent' = 0
       /\ (/\ Interactive /\ TimerMounted(appState, activeTask) /\ isActive
           /\ ticksReceived < MaxTicks) => ENABLED Tick]_vars

====
